---- MODULE Spec2Model ----
(***************************************************************************)
(* Model of empty_host.py: the Cosmic class (inventory loading, the        *)
(* SIGINT handler, __waitforjob, migrate) and main().                      *)
(*                                                                         *)
(* One run of the program is one behaviour.  The remote API is the         *)
(* environment: every response it gives (host list, VM listings, job       *)
(* statuses) is drawn from a small set by the action that makes the call.  *)
(* SIGINT may be delivered between any two steps of the run.               *)
(***************************************************************************)
EXTENDS Integers, Sequences, FiniteSets, TLC

\* ---------------------------------------------------------------- bounds
\* Largest number of user VMs the two listings return together.
MaxUserVMs == 2
\* Largest number of system VMs listed on the source host.
MaxSystemVMs == 1
\* Largest number of router VMs listed on the source host.
MaxRouters == 1
\* The retries argument migrate() passes to __waitforjob: the default of
\* line 116 (120 in the source), scaled down to keep the runs short.
DefaultRetries == 1
\* Largest retries argument of a stand-alone __waitforjob call (WaiterSpec).
MaxRetries == 4

\* ------------------------------------------------------------ value sets
\* Python's None, as an argparse default.
None == "None"
\* Domains a user VM can belong to (never the empty string).
Domains == {"A", "B"}
\* Memory sizes of user VMs.
Memories == {512, 1024}
\* Values of --domain / --exceptdomain: absent, the empty string, a domain.
FilterValues == {None, "", "A"}
\* The names given with --from and --to.
srchv == "hv1"
dsthv == "hv2"
\* jobstatus codes of queryAsyncJobResult: 0 running, 1 success, 2 error.
JobStatuses == {0, 1, 2}
\* Every workload a run can meet: <<collection, position in the collection>>.
Workloads ==
    ({"user"} \X (1..MaxUserVMs)) \cup ({"system"} \X (1..MaxSystemVMs))
        \cup ({"router"} \X (1..MaxRouters))

VARIABLES
    args,            \* parsed options: DRYRUN, disablehost, domain, excdomain
    pc,              \* position of the main control flow
    hosts,           \* self.hosts: names of the loaded hosts
    nlisted,         \* number of user VMs the two listings returned
    projectvms,      \* __getVirtualMachines' projectvms when line 102 raised
    virtualmachines, \* self.virtualmachines['virtualmachine'] (<<>>: no key)
    systemvms,       \* self.systemvms['systemvm'] (<<>>: no key)
    routervms,       \* self.routervms['router'] (<<>>: no key)
    handler,         \* TRUE once signal.signal installed __sighandler
    quit,            \* self.__quit
    sigAt,           \* what the run was doing when SIGINT set the flag
    since,           \* workloads with a status line or request since then
    phase,           \* collection the dispatch loop is in
    i,               \* position of the loop in that collection
    jobid,           \* workload whose job __waitforjob is polling
    maxretries,      \* the retries argument of the current __waitforjob call
    retries,         \* __waitforjob's retries
    wres,            \* value returned by the last __waitforjob call
    observed,        \* job statuses the current __waitforjob call has seen
    calls,           \* calls of each remote operation but the job query
    hostState,       \* allocation state of the source host on the platform
    targets,         \* hostid arguments of the migrate requests so far
    jobs,            \* the run's migration jobs on the platform, if watched
    nstatus,         \* status lines printed, per workload
    nmigrate,        \* migrate requests issued, per workload
    nreport,         \* outcome lines printed, per workload
    lastline         \* text of the last outcome line printed

\* The variables by the part of the program that writes them.
inventory ==
    <<hosts, nlisted, projectvms, virtualmachines, systemvms, routervms>>
signals == <<handler, quit, sigAt, since>>
cursor == <<phase, i>>
waiter == <<jobid, maxretries, retries, wres, observed>>
remote == <<calls, hostState, targets>>
output == <<nstatus, nmigrate, nreport, lastline>>

vars ==
    <<args, pc, inventory, signals, cursor, waiter, remote, jobs, output>>

\* The remote operations whose calls are counted; the calls of
\* queryAsyncJobResult are the entries of observed.
RemoteOps == {"listHosts", "listVirtualMachines", "listSystemVms",
              "listRouters", "updateHost", "migrateVirtualMachine",
              "migrateSystemVm"}

\* sigAt before any SIGINT, and after one that found no workload in progress.
NoSig == [stage |-> "none", phase |-> "none", i |-> 0]
Between == [stage |-> "between", phase |-> "none", i |-> 0]

\* ------------------------------------------------------- pure functions
\* 'key' in response: the platform leaves the list key out of an empty
\* response, so a collection has its key iff it has an element.
HasKey(coll) == coll /= <<>>

\* A listing of n user VMs; a VM's id is its position in the merged listing.
VMListings(n) ==
    { [k \in 1..n |-> [id |-> k, domain |-> f[k][1], memory |-> f[k][2]]] :
        f \in [1..n -> Domains \X Memories] }

\* Mutant of InsertDesc: vm goes in front of the elements of equal memory,
\* which makes the sort unstable.
RECURSIVE InsertDescUnstable(_, _)
InsertDescUnstable(vm, s) ==
    IF s = <<>> THEN <<vm>>
    ELSE IF Head(s).memory > vm.memory
         THEN <<Head(s)>> \o InsertDescUnstable(vm, Tail(s))
         ELSE <<vm>> \o s

\* Insert vm behind every element whose memory is at least vm's.
RECURSIVE InsertDesc(_, _)
InsertDesc(vm, s) ==
    IF s = <<>> THEN <<vm>>
    ELSE IF Head(s).memory >= vm.memory
         THEN <<Head(s)>> \o InsertDesc(vm, Tail(s))
         ELSE <<vm>> \o s

\* sorted(list, key=itemgetter('memory'), reverse=True): stable, descending.
RECURSIVE SortedByMemory(_)
SortedByMemory(s) ==
    IF s = <<>> THEN <<>>
    ELSE InsertDesc(s[Len(s)], SortedByMemory(SubSeq(s, 1, Len(s) - 1)))

\* Lines 153-158: the user VM is not skipped by either 'continue'.
\* A filter value is tested for truth, so None and "" both switch it off.
Included(vm, domain, excdomain) ==
    /\ ~ (domain \notin {None, ""} /\ vm.domain /= domain)
    /\ ~ (excdomain \notin {None, ""} /\ vm.domain = excdomain)

\* Line 176: 'domain' in kwargs and kwargs['domain'] is None.
SystemScope(domain) == domain = None

\* Mutant of BudgetSpent: the loop is left one poll early.
BudgetSpentEarly(r) == r <= 0

\* Mutant of BudgetSpent: the test lets one more iteration through.
BudgetSpentLate(r) == r < -1

\* Line 118: the budget test at the top of __waitforjob's loop.
BudgetSpent(r) == r < 0

\* self.hosts[name]['id']: the platform's id of a host, which is not its
\* name.
HostId(name) == <<"id", name>>

\* Lines 62-68: __contains__ and __getitem__ of the host inventory; an
\* unknown name is looked up as None.
Contains(hs, item) == item \in hs
GetItem(hs, item) ==
    IF item \in hs THEN [name |-> item, id |-> HostId(item)] ELSE None

\* Line 138: the hostid every migrate request of migrate() is given.
dst_hostid == HostId(dsthv)

\* The platform's table of asynchronous jobs, as far as the migration jobs
\* of the run go: 'running' says the job issued last is in Running status,
\* 'left' that a job issued before it is, 'queries' counts the
\* queryAsyncJobResult calls served.  The program cannot read the table; a
\* specification watches it (on) or, to stay small, does not.
NoJobs(on) == [on |-> on, running |-> FALSE, left |-> FALSE, queries |-> 0]

\* Lines 165, 183, 199: a migrate request creates a job, which starts in
\* Running status; the job issued before it is from now on an earlier job.
JobCreated(t) ==
    IF t.on
    THEN [t EXCEPT !.left = t.left \/ t.running, !.running = TRUE]
    ELSE t

\* Lines 120-121: queryAsyncJobResult is served with the status of the
\* job (0 running, 1 succeeded, 2 failed), which it reached by now.
JobQueried(t, jobstatus) ==
    IF t.on
    THEN [t EXCEPT !.running = (jobstatus \notin {1, 2}), !.queries = @ + 1]
    ELSE t

\* Lines 145-146: the condition of the updateHost call.
DisableWanted(disablehost, vms, sysvms, routers) ==
    disablehost /\ (HasKey(vms) \/ HasKey(sysvms) \/ HasKey(routers))

\* The collection a phase of migrate() iterates over.
Coll(p) ==
    CASE p = "user" -> virtualmachines
      [] p = "system" -> systemvms
      [] p = "router" -> routervms
      [] OTHER -> <<>>

\* Mutant of MigrateOp: every workload is migrated as a user VM.
MigrateOpUserOnly(p) == "migrateVirtualMachine"

\* The migrate operation a phase uses (lines 165, 183, 199).
MigrateOp(p) ==
    IF p = "user" THEN "migrateVirtualMachine" ELSE "migrateSystemVm"

\* The outcome line printed for a __waitforjob result (lines 166-169).
OutcomeLine(ok) ==
    IF ok THEN "Migration successful" ELSE "Migration unsuccessful!"

Running == pc \in {"main", "install", "load", "disable", "loop", "dispatch",
                   "waitforjob", "report", "check"}

\* Exit status of the process once it has ended.
ExitCode ==
    CASE pc \in {"done", "exit0"} -> 0
      [] pc \in {"exit1", "KeyError_host", "KeyError_virtualmachine",
                  "KeyboardInterrupt"} -> 1
      [] OTHER -> -1

\* ------------------------------------------------------------------ Init
\* The program before main() runs, for any parsed command line.
InitProgram ==
    /\ args \in { a \in [DRYRUN : BOOLEAN, disablehost : BOOLEAN,
                         domain : FilterValues, excdomain : FilterValues] :
                    a.domain = None \/ a.excdomain = None }
    /\ pc = "main"
    /\ hosts = {}
    /\ nlisted = 0 /\ projectvms = <<>>
    /\ virtualmachines = <<>> /\ systemvms = <<>> /\ routervms = <<>>
    /\ handler = FALSE /\ quit = FALSE /\ sigAt = NoSig /\ since = 0
    /\ phase = "none" /\ i = 0
    /\ jobid = <<"none", 0>> /\ maxretries = 0 /\ retries = 0
    /\ wres = FALSE /\ observed = <<>>
    /\ calls = [op \in RemoteOps |-> 0]
    /\ hostState = "Enabled" /\ targets = {}
    /\ nstatus = [w \in Workloads |-> 0]
    /\ nmigrate = [w \in Workloads |-> 0]
    /\ nreport = [w \in Workloads |-> 0]
    /\ lastline = ""

Init == InitProgram /\ jobs = NoJobs(FALSE)

\* --------------------------------------------------------------- actions
\* main(), lines 225-235: the srchost setter loads the hosts, then both
\* names are looked up; an unknown name ends the run with exit code 1.
Main ==
    /\ pc = "main"
    /\ \E listed \in SUBSET {srchv, dsthv} :
        /\ calls' = [calls EXCEPT !["listHosts"] = @ + 1]
        /\ IF listed = {}
           THEN \* line 92: the empty response has no 'host' key
                /\ hosts' = {}
                /\ pc' = "KeyError_host"
           ELSE /\ hosts' = listed
                /\ pc' = IF Contains(listed, srchv) /\ Contains(listed, dsthv)
                         THEN "install" ELSE "exit1"
    /\ UNCHANGED <<args, jobs, nlisted, projectvms, virtualmachines,
                   systemvms, routervms, signals, cursor, waiter, hostState,
                   targets, output>>

\* Line 135: signal.signal(signal.SIGINT, self.__sighandler).
InstallHandler ==
    /\ pc = "install"
    /\ handler' = TRUE
    /\ pc' = "load"
    /\ UNCHANGED <<args, jobs, inventory, quit, sigAt, since, cursor, waiter,
                   remote, output>>

\* Lines 140-143: __getDomains, __getSystemVms, __getRouters and
\* __getVirtualMachines (lines 98-105).  The two user VM listings are any
\* split of a listing of n VMs.  Line 102 appends the project listing to
\* the 'virtualmachine' list of the standard response, which an empty
\* standard response does not have: KeyError.
LoadInventory ==
    /\ pc = "load"
    /\ \E n \in 0..MaxUserVMs, ns \in 0..MaxSystemVMs, nr \in 0..MaxRouters :
       \E all \in VMListings(n), split \in 0..n :
        LET std == SubSeq(all, 1, split)
            proj == SubSeq(all, split + 1, n)
        IN  /\ nlisted' = n
            /\ systemvms' = [k \in 1..ns |-> k]
            /\ routervms' = [k \in 1..nr |-> k]
            /\ IF proj /= <<>> /\ ~ HasKey(std)
               THEN /\ virtualmachines' = std
                    /\ projectvms' = proj
                    /\ pc' = "KeyError_virtualmachine"
               ELSE /\ virtualmachines' = SortedByMemory(std \o proj)
                    /\ projectvms' = <<>>
                    /\ pc' = "disable"
    /\ calls' = [calls EXCEPT !["listSystemVms"] = @ + 1,
                              !["listRouters"] = @ + 1,
                              !["listVirtualMachines"] = @ + 2]
    /\ UNCHANGED <<args, jobs, hosts, signals, cursor, waiter, hostState,
                   targets, output>>

\* Lines 145-150: the conditional updateHost(allocationstate='Disable'),
\* then the entry of the user VM section.
MaybeDisable ==
    /\ pc = "disable"
    /\ IF DisableWanted(args.disablehost, virtualmachines, systemvms, routervms)
       THEN /\ calls' = [calls EXCEPT !["updateHost"] = @ + 1]
            /\ hostState' = "Disabled"
       ELSE UNCHANGED <<calls, hostState>>
    /\ phase' = "user"
    /\ i' = 1
    /\ pc' = "loop"
    /\ UNCHANGED <<args, jobs, inventory, signals, waiter, targets, output>>

\* Lines 152-158: a user VM the domain filter rejects is skipped by
\* 'continue', which also skips the check of the quit flag.
LoopSkip ==
    /\ pc = "loop"
    /\ phase = "user"
    /\ i <= Len(virtualmachines)
    /\ ~ Included(virtualmachines[i], args.domain, args.excdomain)
    /\ i' = i + 1
    /\ UNCHANGED <<args, jobs, pc, inventory, signals, phase, waiter, remote,
                   output>>

\* Lines 160-163, 180-181, 196-197: the status line of the next workload.
LoopStatus ==
    /\ pc = "loop"
    /\ i <= Len(Coll(phase))
    /\ phase = "user" =>
           Included(virtualmachines[i], args.domain, args.excdomain)
    /\ nstatus' = [nstatus EXCEPT ![<<phase, i>>] = @ + 1]
    /\ since' = IF quit THEN since + 1 ELSE since
    /\ pc' = "dispatch"
    /\ UNCHANGED <<args, jobs, inventory, handler, quit, sigAt, cursor, waiter,
                   remote, nmigrate, nreport, lastline>>

\* The end of a for loop: lines 176-179 after the user VMs (system and
\* router VMs only when no --domain was given), line 193 after the system
\* VMs, the end of migrate() after the routers.
LoopEnd ==
    /\ pc = "loop"
    /\ i > Len(Coll(phase))
    /\ \/ /\ phase = "user"
          /\ SystemScope(args.domain)
          /\ phase' = "system" /\ i' = 1 /\ pc' = "loop"
       \/ /\ phase = "user"
          /\ ~ SystemScope(args.domain)
          /\ pc' = "done" /\ UNCHANGED cursor
       \/ /\ phase = "system"
          /\ phase' = "router" /\ i' = 1 /\ pc' = "loop"
       \/ /\ phase = "router"
          /\ pc' = "done" /\ UNCHANGED cursor
    /\ UNCHANGED <<args, jobs, inventory, signals, waiter, remote, output>>

\* Lines 164-166, 170-171: in exec mode the migrate request, whose job id
\* is handed to __waitforjob with the default retries; else 'DRYRUN'.
Dispatch ==
    /\ pc = "dispatch"
    /\ \/ /\ ~ args.DRYRUN
          /\ calls' = [calls EXCEPT ![MigrateOp(phase)] = @ + 1]
          /\ targets' = targets \cup {dst_hostid}
          /\ jobs' = JobCreated(jobs)
          /\ since' = IF quit /\ since = 0 THEN 1 ELSE since
          /\ nmigrate' = [nmigrate EXCEPT ![<<phase, i>>] = @ + 1]
          /\ jobid' = <<phase, i>>
          /\ maxretries' = DefaultRetries
          /\ retries' = DefaultRetries
          /\ observed' = <<>>
          /\ pc' = "waitforjob"
          /\ UNCHANGED <<wres, nreport, lastline>>
       \/ /\ args.DRYRUN
          /\ lastline' = "DRYRUN"
          /\ nreport' = [nreport EXCEPT ![<<phase, i>>] = @ + 1]
          /\ pc' = "check"
          /\ UNCHANGED <<waiter, calls, targets, jobs, since, nmigrate>>
    /\ UNCHANGED <<args, inventory, handler, quit, sigAt, cursor, hostState,
                   nstatus>>

\* Mutant of WaitPoll: jobstatus 2 does not break out of the loop, so the
\* job is polled again after it has failed.
WaitPollOnAfterError ==
    /\ pc = "waitforjob"
    /\ ~ BudgetSpent(retries)
    /\ \E jobstatus \in JobStatuses :
        /\ observed' = Append(observed, jobstatus)
        /\ jobs' = JobQueried(jobs, jobstatus)
        /\ \/ /\ jobstatus = 1
              /\ wres' = TRUE /\ pc' = "report" /\ UNCHANGED retries
           \/ /\ jobstatus /= 1
              /\ retries' = retries - 1
              /\ UNCHANGED <<wres, pc>>
    /\ UNCHANGED <<args, inventory, signals, cursor, jobid, maxretries,
                   remote, output>>

\* Mutant of WaitPoll: line 128 is missing, retries is never decremented.
WaitPollNoDecrement ==
    /\ pc = "waitforjob"
    /\ ~ BudgetSpent(retries)
    /\ \E jobstatus \in JobStatuses :
        /\ observed' = Append(observed, jobstatus)
        /\ jobs' = JobQueried(jobs, jobstatus)
        /\ \/ /\ jobstatus = 1
              /\ wres' = TRUE /\ pc' = "report"
           \/ /\ jobstatus = 2
              /\ wres' = FALSE /\ pc' = "report"
           \/ /\ jobstatus \notin {1, 2}
              /\ UNCHANGED <<wres, pc>>
    /\ UNCHANGED <<args, inventory, signals, cursor, jobid, maxretries,
                   retries, remote, output>>

\* Mutant of WaitPoll: the loop looks at the quit flag and gives the wait
\* up once it is set.
WaitPollCancellable ==
    /\ pc = "waitforjob"
    /\ ~ BudgetSpent(retries)
    /\ \/ /\ quit
          /\ wres' = FALSE /\ pc' = "report"
          /\ UNCHANGED <<retries, observed, jobs>>
       \/ /\ ~ quit
          /\ \E jobstatus \in JobStatuses :
               /\ observed' = Append(observed, jobstatus)
               /\ jobs' = JobQueried(jobs, jobstatus)
               /\ \/ /\ jobstatus = 1
                     /\ wres' = TRUE /\ pc' = "report" /\ UNCHANGED retries
                  \/ /\ jobstatus = 2
                     /\ wres' = FALSE /\ pc' = "report" /\ UNCHANGED retries
                  \/ /\ jobstatus \notin {1, 2}
                     /\ retries' = retries - 1
                     /\ UNCHANGED <<wres, pc>>
    /\ UNCHANGED <<args, inventory, signals, cursor, jobid, maxretries,
                   remote, output>>

\* Lines 117-129: one iteration of __waitforjob's loop that polls.
WaitPoll ==
    /\ pc = "waitforjob"
    /\ ~ BudgetSpent(retries)
    /\ \E jobstatus \in JobStatuses :
        /\ observed' = Append(observed, jobstatus)
        /\ jobs' = JobQueried(jobs, jobstatus)
        /\ \/ /\ jobstatus = 1
              /\ wres' = TRUE /\ pc' = "report" /\ UNCHANGED retries
           \/ /\ jobstatus = 2
              /\ wres' = FALSE /\ pc' = "report" /\ UNCHANGED retries
           \/ /\ jobstatus \notin {1, 2}
              /\ retries' = retries - 1
              /\ UNCHANGED <<wres, pc>>
    /\ UNCHANGED <<args, inventory, signals, cursor, jobid, maxretries,
                   remote, output>>

\* Lines 118-119, 130: the budget is spent, __waitforjob returns False.
WaitTimeout ==
    /\ pc = "waitforjob"
    /\ BudgetSpent(retries)
    /\ wres' = FALSE
    /\ pc' = "report"
    /\ UNCHANGED <<args, jobs, inventory, signals, cursor, jobid, maxretries,
                   retries, observed, remote, output>>

\* Mutant of Report: a workload whose migration was unsuccessful is
\* dispatched a second time.
ReportRetriesFailure ==
    /\ pc = "report"
    /\ IF ~ wres /\ nmigrate[<<phase, i>>] < 2
       THEN /\ pc' = "dispatch"
            /\ UNCHANGED <<lastline, nreport>>
       ELSE /\ lastline' = OutcomeLine(wres)
            /\ nreport' = [nreport EXCEPT ![<<phase, i>>] = @ + 1]
            /\ pc' = "check"
    /\ maxretries' = 0
    /\ retries' = 0
    /\ observed' = <<>>
    /\ UNCHANGED <<args, jobs, inventory, signals, cursor, jobid, wres, remote,
                   nstatus, nmigrate>>

\* Lines 166-169: the outcome line for the result of __waitforjob, whose
\* locals are gone once the result is used.
Report ==
    /\ pc = "report"
    /\ lastline' = OutcomeLine(wres)
    /\ nreport' = [nreport EXCEPT ![<<phase, i>>] = @ + 1]
    /\ maxretries' = 0
    /\ retries' = 0
    /\ observed' = <<>>
    /\ pc' = "check"
    /\ UNCHANGED <<args, jobs, inventory, signals, cursor, jobid, wres, remote,
                   nstatus, nmigrate>>

\* Mutant of Check: the quit flag is not looked at.
CheckIgnoresQuit ==
    /\ pc = "check"
    /\ i' = i + 1 /\ pc' = "loop"
    /\ UNCHANGED <<args, jobs, inventory, signals, phase, waiter, remote,
                   output>>

\* Mutant of Check: a cancelled run re-enables the source host on its way out.
CheckReenable ==
    /\ pc = "check"
    /\ \/ /\ quit
          /\ pc' = "exit0"
          /\ calls' = [calls EXCEPT !["updateHost"] = @ + 1]
          /\ hostState' = "Enabled"
          /\ UNCHANGED <<i, targets>>
       \/ /\ ~ quit
          /\ i' = i + 1 /\ pc' = "loop"
          /\ UNCHANGED remote
    /\ UNCHANGED <<args, jobs, inventory, signals, phase, waiter, output>>

\* Lines 172-173, 190-191, 206-207: if self.__quit: sys.exit(0).
Check ==
    /\ pc = "check"
    /\ \/ /\ quit
          /\ pc' = "exit0" /\ UNCHANGED i
       \/ /\ ~ quit
          /\ i' = i + 1 /\ pc' = "loop"
    /\ UNCHANGED <<args, jobs, inventory, signals, phase, waiter, remote,
                   output>>

\* Lines 113-114: SIGINT with the handler installed sets the flag (a second
\* SIGINT would set it again and change nothing).  sigAt records the
\* workload whose status line was out and whose outcome was not, if any.
Sighandler ==
    /\ Running
    /\ handler
    /\ ~ quit
    /\ quit' = TRUE
    /\ sigAt' = IF pc \in {"dispatch", "waitforjob", "report"}
                THEN [stage |-> "during", phase |-> phase, i |-> i]
                ELSE Between
    /\ UNCHANGED <<args, jobs, pc, inventory, handler, since, cursor, waiter,
                   remote, output>>

\* SIGINT before line 135: Python's default handler raises
\* KeyboardInterrupt, which nothing catches.
DefaultSigint ==
    /\ Running
    /\ ~ handler
    /\ pc' = "KeyboardInterrupt"
    /\ UNCHANGED <<args, jobs, inventory, signals, cursor, waiter, remote,
                   output>>

Next ==
    \/ Main
    \/ InstallHandler
    \/ LoadInventory
    \/ MaybeDisable
    \/ LoopSkip
    \/ LoopStatus
    \/ LoopEnd
    \/ Dispatch
    \/ WaitPoll
    \/ WaitTimeout
    \/ Report
    \/ Check
    \/ Sighandler
    \/ DefaultSigint

Spec == Init /\ [][Next]_vars

\* A stand-alone call __waitforjob(jobid, retries) for every retries from
\* -1 to MaxRetries: the specification of the claims about the Job Waiter.
WaiterInit ==
    /\ args = [DRYRUN |-> FALSE, disablehost |-> FALSE, domain |-> None,
               excdomain |-> None]
    /\ pc = "waitforjob"
    /\ hosts = {srchv, dsthv}
    /\ nlisted = 0 /\ projectvms = <<>>
    /\ virtualmachines = <<>> /\ systemvms = <<>> /\ routervms = <<>>
    /\ handler = FALSE /\ quit = FALSE /\ sigAt = NoSig /\ since = 0
    /\ phase = "none" /\ i = 0
    /\ jobid \in Workloads
    /\ maxretries \in -1..MaxRetries
    /\ retries = maxretries
    /\ wres = FALSE /\ observed = <<>>
    /\ calls = [op \in RemoteOps |-> 0]
    /\ hostState = "Enabled" /\ targets = {}
    /\ jobs = NoJobs(FALSE)
    /\ nstatus = [w \in Workloads |-> 0]
    /\ nmigrate = [w \in Workloads |-> 0]
    /\ nreport = [w \in Workloads |-> 0]
    /\ lastline = ""

WaiterNext == WaitPoll \/ WaitTimeout

WaiterSpec == WaiterInit /\ [][WaiterNext]_vars

\* A job nobody is waiting for reaches a terminal status whenever the
\* platform gets there (a job __waitforjob is polling does so in the poll
\* that reports it).
JobEnds ==
    /\ Running
    /\ jobs.on
    /\ \/ /\ jobs.left
          /\ jobs' = [jobs EXCEPT !.left = FALSE]
       \/ /\ jobs.running /\ pc /= "waitforjob"
          /\ jobs' = [jobs EXCEPT !.running = FALSE]
    /\ UNCHANGED <<args, pc, inventory, signals, cursor, waiter, remote,
                   output>>

\* The exec runs with --exceptdomain A, whose inventories hold VMs the
\* filter lets through and VMs it skips, together with the platform's job
\* table.
PlatformInit ==
    /\ InitProgram
    /\ ~ args.DRYRUN /\ ~ args.disablehost
    /\ args.domain = None /\ args.excdomain = "A"
    /\ jobs = NoJobs(TRUE)

PlatformNext == Next \/ JobEnds

PlatformSpec == PlatformInit /\ [][PlatformNext]_vars

\* ------------------------------------------------- vocabulary of the claims
\* migrate() has been entered and the inventory is loaded.
Dispatching == pc \in {"loop", "dispatch", "waitforjob", "report", "check",
                       "done", "exit0"}
\* migrate() was entered and the run is over.
MigrateEnded == pc \in {"done", "exit0", "KeyError_virtualmachine"}
\* No SIGINT was delivered to the run.
NoSigint == sigAt = NoSig /\ pc /= "KeyboardInterrupt"
\* The user VMs the listings found on the source host.
UserVMs == virtualmachines \o projectvms
\* The workloads found on the source host.
OnHost(w) ==
    \/ w[1] = "user" /\ w[2] <= Len(UserVMs)
    \/ w[1] = "system" /\ w[2] <= Len(systemvms)
    \/ w[1] = "router" /\ w[2] <= Len(routervms)
\* The workloads of the source host the run is to migrate.
Eligible(w) ==
    /\ OnHost(w)
    /\ w[1] = "user" => Included(UserVMs[w[2]], args.domain, args.excdomain)
    /\ w[1] /= "user" => args.domain = None
\* Workload w comes after workload k in the order user, system, router.
PhaseRank(p) ==
    CASE p = "user" -> 1 [] p = "system" -> 2 [] p = "router" -> 3
      [] OTHER -> 0
After(w, k) ==
    \/ PhaseRank(w[1]) > PhaseRank(k[1])
    \/ w[1] = k[1] /\ w[2] > k[2]
NoMigrateRequest ==
    /\ \A w \in Workloads : nmigrate[w] = 0
    /\ calls["migrateVirtualMachine"] = 0
    /\ calls["migrateSystemVm"] = 0
\* The workloads of a kind a migrate request was issued for.
Migrated(kind) == {w \in Workloads : w[1] = kind /\ nmigrate[w] > 0}
\* The dispatch loop has decided about user VM j (skipped it or printed
\* its status line).
Decided(j) ==
    /\ Dispatching
    /\ j <= Len(virtualmachines)
    /\ \/ phase /= "user"
       \/ i > j
       \/ i = j /\ pc /= "loop"

\* ------------------------------------------------------------------ claims
\* C1 (as claimed): a dry run issues no migrate request and no job status
\* query, and a dry run that no SIGINT reached has printed 'DRYRUN' for
\* every eligible workload of the source host when it ends.
C1_DryRunReportsEveryWorkload ==
    args.DRYRUN =>
        /\ NoMigrateRequest
        /\ observed = <<>> /\ pc /= "waitforjob"
        /\ lastline \in {"", "DRYRUN"}
        /\ (MigrateEnded /\ NoSigint) =>
               \A w \in Workloads : Eligible(w) => nreport[w] = 1

\* C1 on the runs whose inventory loads (all but those line 102 ends).
C1_OnceLoaded ==
    args.DRYRUN =>
        /\ NoMigrateRequest
        /\ observed = <<>> /\ pc /= "waitforjob"
        /\ lastline \in {"", "DRYRUN"}
        /\ (pc = "done" /\ NoSigint) =>
               \A w \in Workloads : Eligible(w) => nreport[w] = 1

\* C2 (as claimed): a dry run sends neither a migrate request nor an
\* updateHost request; the source host keeps its allocation state.
C2_DryRunMutatesNothing ==
    args.DRYRUN =>
        /\ NoMigrateRequest
        /\ calls["updateHost"] = 0
        /\ hostState = "Enabled"

\* C3: once SIGINT has set the flag while workload k was in progress (status
\* line out, outcome not), no workload after k gets a status line or a
\* migrate request, the host is not re-enabled, and the run can only end
\* by sys.exit(0), with the outcome of k reported.
C3_CancelStopsAfterCurrent ==
    sigAt.stage = "during" =>
        LET k == <<sigAt.phase, sigAt.i>>
        IN  /\ \A w \in Workloads :
                   After(w, k) => nstatus[w] = 0 /\ nmigrate[w] = 0
            /\ calls["updateHost"] = (IF hostState = "Disabled" THEN 1 ELSE 0)
            /\ ~ Running =>
                   /\ pc = "exit0" /\ ExitCode = 0
                   /\ nstatus[k] = 1 /\ nreport[k] = 1

\* C3's case: SIGINT came during the first user VM, the run has exited, and
\* an eligible workload after it is left untouched.
C3_Witness ==
    /\ pc = "exit0"
    /\ sigAt = [stage |-> "during", phase |-> "user", i |-> 1]
    /\ nreport[<<"user", 1>>] = 1
    /\ \E w \in Workloads :
           Eligible(w) /\ After(w, <<"user", 1>>) /\ nstatus[w] = 0

\* C4: when __waitforjob returns, it returns True iff a poll saw success and
\* no earlier poll saw failed; no poll follows one that saw success or
\* failed; and a call all of whose polls saw running returns False.
C4_WaiterResult ==
    /\ \A k \in 1..(Len(observed) - 1) : observed[k] \notin {1, 2}
    /\ pc = "report" =>
           /\ wres <=> \E k \in 1..Len(observed) :
                           /\ observed[k] = 1
                           /\ \A j \in 1..(k - 1) : observed[j] /= 2
           /\ (\E k \in 1..Len(observed) : observed[k] = 2) => ~ wres
           /\ (\A k \in 1..Len(observed) : observed[k] = 0) =>
                  ~ wres /\ BudgetSpent(retries)

\* C4's cases: a call returned True after two running polls, and a call
\* returned False on a failed job.
C4_Witness ==
    /\ pc = "report"
    /\ \/ wres /\ observed = <<0, 0, 1>>
       \/ ~ wres /\ observed = <<0, 2>>

\* C5 (as claimed): a call with retries = N >= 0 issues at most N polls, and
\* with N = 3 the statuses running, running, running, success give False.
C5_AtMostNPolls ==
    /\ maxretries >= 0 => Len(observed) <= maxretries
    /\ (pc = "report" /\ maxretries = 3 /\ observed = <<0, 0, 0, 1>>) => ~ wres

\* C5 (amended): a call with retries = N issues at most N + 1 polls and
\* returns False once N + 1 polls saw running; with N = 3 the statuses
\* running, running, running, success give True after 4 polls, and
\* running, running, success give True after 3.
C5_AtMostNPlusOnePolls ==
    /\ Len(observed) <= maxretries + 1
    /\ pc = "report" =>
           /\ (\A k \in 1..Len(observed) : observed[k] = 0) =>
                  ~ wres /\ Len(observed) = maxretries + 1
           /\ (maxretries = 3 /\ observed = <<0, 0, 0, 1>>) => wres
           /\ (maxretries = 3 /\ observed = <<0, 0, 1>>) => wres

\* C5's case: with retries = 3 the fourth poll saw success.
C5_Witness ==
    /\ pc = "report"
    /\ maxretries = 3
    /\ observed = <<0, 0, 0, 1>>
    /\ wres

\* What C6 says of a user VM: --domain D keeps the VMs of D, --exceptdomain
\* E keeps the VMs not of E, no filter keeps them all.
ClaimedIncluded(vm) ==
    IF args.domain /= None THEN vm.domain = args.domain
    ELSE IF args.excdomain /= None THEN vm.domain /= args.excdomain
    ELSE TRUE

\* C6 (as claimed): every user VM the loop has decided about has its status
\* line iff the filter of the claim keeps it, and a VM without a status
\* line has no migrate request.
C6_FilterDecides ==
    \A j \in 1..MaxUserVMs :
        Decided(j) =>
            /\ nstatus[<<"user", j>>] = 1 <=> ClaimedIncluded(virtualmachines[j])
            /\ nstatus[<<"user", j>>] = 0 => nmigrate[<<"user", j>>] = 0

\* C6 for every filter value but --domain "" (the empty string).
C6_NonEmptyDomain ==
    args.domain /= "" => C6_FilterDecides

\* C7 (as claimed): with --domain no system or router VM gets a status line
\* or a migrate request; without it, a run that no SIGINT reached has
\* processed every system and router VM of the source host when it ends.
C7_SystemScope ==
    \A w \in Workloads :
        (w[1] /= "user" /\ OnHost(w)) =>
            /\ args.domain /= None => nstatus[w] = 0 /\ nmigrate[w] = 0
            /\ (args.domain = None /\ MigrateEnded /\ NoSigint) =>
                   /\ nstatus[w] = 1 /\ nreport[w] = 1
                   /\ ~ args.DRYRUN => nmigrate[w] = 1

\* C7 on the runs whose inventory loads.
C7_OnceLoaded ==
    \A w \in Workloads :
        (w[1] /= "user" /\ OnHost(w)) =>
            /\ args.domain /= None => nstatus[w] = 0 /\ nmigrate[w] = 0
            /\ (args.domain = None /\ pc = "done" /\ NoSigint) =>
                   /\ nstatus[w] = 1 /\ nreport[w] = 1
                   /\ ~ args.DRYRUN => nmigrate[w] = 1

\* C8 (as claimed): once migrate() is past its updateHost statement, or has
\* ended, the disable request has been issued iff --disablehost was given
\* and the source host has a user, system or router VM.
C8_DisableIffWorkload ==
    (Dispatching \/ MigrateEnded) =>
        /\ calls["updateHost"] \in {0, 1}
        /\ calls["updateHost"] = 1 <=>
               /\ args.disablehost
               /\ UserVMs /= <<>> \/ systemvms /= <<>> \/ routervms /= <<>>

\* C8 on the runs whose inventory loads.
C8_OnceLoaded ==
    Dispatching =>
        /\ calls["updateHost"] \in {0, 1}
        /\ calls["updateHost"] = 1 <=>
               /\ args.disablehost
               /\ UserVMs /= <<>> \/ systemvms /= <<>> \/ routervms /= <<>>

\* C9: at most one updateHost request is issued; it disables the source
\* host, no migrate request precedes it, and a disabled host stays disabled.
C9_DisabledOnceAndForGood ==
    /\ [](calls["updateHost"] <= 1)
    /\ [][/\ calls'["updateHost"] /= calls["updateHost"] =>
                 /\ hostState' = "Disabled"
                 /\ NoMigrateRequest
          /\ hostState = "Disabled" => hostState' = "Disabled"
          /\ hostState' /= hostState => calls'["updateHost"] /= calls["updateHost"]
         ]_vars

\* C9's cases: the host is still disabled after a cancelled run, and after
\* a complete run in which a migration was unsuccessful.
C9_Witness ==
    /\ hostState = "Disabled"
    /\ calls["updateHost"] = 1
    /\ \E w \in Workloads : nmigrate[w] = 1
    /\ \/ pc = "exit0"
       \/ pc = "done" /\ lastline = "Migration unsuccessful!"

\* C10 (as claimed): an exec run that no SIGINT reached has, when it ends,
\* given every eligible workload of the source host its status line, its
\* one migrate request and its outcome line.
C10_EveryWorkloadProcessed ==
    (~ args.DRYRUN /\ MigrateEnded /\ NoSigint) =>
        /\ \A w \in Workloads :
               Eligible(w) =>
                   nstatus[w] = 1 /\ nmigrate[w] = 1 /\ nreport[w] = 1
        /\ pc = "done"

\* C10 on the runs whose inventory loads; a run does not end at a job that
\* failed or timed out.
C10_OnceLoaded ==
    /\ (~ args.DRYRUN /\ pc = "done" /\ NoSigint) =>
           \A w \in Workloads :
               Eligible(w) =>
                   nstatus[w] = 1 /\ nmigrate[w] = 1 /\ nreport[w] = 1
    /\ (~ args.DRYRUN /\ NoSigint /\ Dispatching /\ ~ Running) => pc = "done"

\* C11: the migrate requests come in the order user VMs, system VMs, router
\* VMs: when a request is issued for a workload, none has been issued for a
\* workload of a later kind.  User VMs are migrated by migrateVirtualMachine,
\* system VMs and routers by migrateSystemVm, and every request names the
\* destination host's id.
C11_OrderAndOperation ==
    /\ [](/\ calls["migrateVirtualMachine"] = Cardinality(Migrated("user"))
          /\ calls["migrateSystemVm"] =
                 Cardinality(Migrated("system")) + Cardinality(Migrated("router"))
          /\ targets \subseteq {dst_hostid}
          /\ NoMigrateRequest <=> targets = {})
    /\ [][\A w \in Workloads :
              nmigrate'[w] > nmigrate[w] =>
                  \A k \in Workloads :
                      PhaseRank(k[1]) > PhaseRank(w[1]) =>
                          nstatus[k] = 0 /\ nmigrate[k] = 0
         ]_vars

\* C11's case: a run that migrated a user VM, a system VM and a router.
C11_Witness ==
    /\ pc = "done"
    /\ \A kind \in {"user", "system", "router"} : Migrated(kind) /= {}
    /\ calls["migrateVirtualMachine"] >= 1
    /\ calls["migrateSystemVm"] = 2
    /\ targets = {dst_hostid}

\* C12 (as claimed): no migrate request is issued while a migration job
\* issued earlier in the run is in Running status on the platform ('left'
\* becomes true exactly when that happens).
C12_NoJobRunningAtDispatch == ~ jobs.left

\* C12, amended: dispatch is sequential in the program.  A migrate request is
\* issued only when no __waitforjob call is in progress, the job polled is
\* the one of the current workload, and __waitforjob returns while its job
\* is still Running only after maxretries + 1 polls that all reported
\* Running; only such a timed-out job (outcome 'Migration unsuccessful!')
\* is Running while a later migrate request is issued.
C12_OnlyTimedOutJobsRun ==
    /\ [](pc = "waitforjob" => jobid = <<phase, i>> /\ jobs.running)
    /\ []((pc = "report" /\ jobs.running) =>
              /\ ~ wres
              /\ Len(observed) = maxretries + 1
              /\ \A k \in 1..Len(observed) : observed[k] = 0)
    /\ []((jobs.running /\ pc \in {"check", "loop", "dispatch", "done",
                                     "exit0"}) =>
              lastline = "Migration unsuccessful!")
    /\ [][/\ nmigrate' /= nmigrate =>
                 pc = "dispatch" /\ pc' = "waitforjob"
          /\ (jobs'.left /\ ~ jobs.left) =>
                 /\ nmigrate' /= nmigrate
                 /\ jobs.running
                 /\ lastline = "Migration unsuccessful!"
         ]_vars

\* C12's case: a migrate request was just issued while the job of a
\* workload whose wait timed out is still Running.
C12_Witness ==
    /\ pc = "waitforjob" /\ observed = <<>>
    /\ jobs.left
    /\ lastline = "Migration unsuccessful!"
    /\ \E w \in Workloads : nmigrate[w] = 1 /\ nreport[w] = 1

\* The ids of the VMs in a listing.
Ids(listing) == {listing[k].id : k \in 1..Len(listing)}

\* C13 (as claimed): for every pair of listings the inventory loads without
\* an error, and once it is loaded the user VM collection holds every VM
\* the two listings returned, each once.
C13_LoadsBothListings ==
    /\ pc /= "KeyError_virtualmachine"
    /\ (pc = "disable" \/ Dispatching) =>
           /\ Len(virtualmachines) = nlisted
           /\ Ids(virtualmachines) = 1..nlisted

\* C13 on the pairs of listings line 102 can merge: the run ends in the
\* KeyError exactly when the project listing was not empty and the standard
\* one was, and a loaded collection holds every listed VM once.
C13_OnceLoaded ==
    /\ pc = "KeyError_virtualmachine" <=>
           (projectvms /= <<>> /\ pc \notin {"main", "install", "load"})
    /\ projectvms /= <<>> => virtualmachines = <<>>
    /\ (pc = "disable" \/ Dispatching) =>
           /\ Len(virtualmachines) = nlisted
           /\ Ids(virtualmachines) = 1..nlisted

\* User VM a is to be dispatched before user VM b: it has more memory, or
\* as much and it comes first in the merged listing (standard, then project).
Precedes(a, b) ==
    \/ a.memory > b.memory
    \/ a.memory = b.memory /\ a.id < b.id

\* C14: the user VMs are dispatched in descending order of memory, VMs of
\* equal memory in the order of the merged listing: when the status line of
\* an eligible user VM is out, every eligible user VM that precedes it has
\* had its status line, its migrate request (exec mode) and its outcome.
C14_DescendingStable ==
    Dispatching =>
        \A x, y \in 1..Len(virtualmachines) :
            LET a == virtualmachines[x]
                b == virtualmachines[y]
            IN  (/\ Precedes(a, b)
                 /\ Included(a, args.domain, args.excdomain)
                 /\ nstatus[<<"user", y>>] > 0) =>
                    /\ nstatus[<<"user", x>>] = 1
                    /\ nreport[<<"user", x>>] = 1
                    /\ ~ args.DRYRUN => nmigrate[<<"user", x>>] = 1

\* C14's case: the VM listed second has more memory and was migrated
\* first; the VM listed first was dispatched after it.
C14_Witness ==
    /\ Len(virtualmachines) = 2
    /\ virtualmachines[1].id = 2 /\ virtualmachines[2].id = 1
    /\ virtualmachines[1].memory > virtualmachines[2].memory
    /\ nmigrate[<<"user", 1>>] = 1 /\ nreport[<<"user", 1>>] = 1
    /\ nstatus[<<"user", 2>>] = 1

\* No request past listHosts has been sent.
OnlyHostsListed ==
    /\ \A op \in RemoteOps \ {"listHosts"} : calls[op] = 0
    /\ hostState = "Enabled" /\ targets = {}
    /\ nlisted = 0 /\ virtualmachines = <<>>
    /\ systemvms = <<>> /\ routervms = <<>>

\* C15 (as claimed): once listHosts has answered, a source or destination
\* name that is not in the host inventory is reported as not found and the
\* run exits with code 1, having sent no request but listHosts; the lookup
\* of such a name gives None.
C15_UnknownHostReported ==
    calls["listHosts"] > 0 =>
        /\ (~ Contains(hosts, srchv) \/ ~ Contains(hosts, dsthv)) =>
               /\ pc = "exit1"
               /\ ExitCode = 1
               /\ OnlyHostsListed
        /\ \A name \in {srchv, dsthv} :
               ~ Contains(hosts, name) => GetItem(hosts, name) = None

\* C15 when listHosts lists at least one host: the run ends as not found
\* exactly when one of the two names is missing.
C15_HostsListed ==
    (calls["listHosts"] > 0 /\ pc /= "KeyError_host") =>
        /\ hosts /= {}
        /\ (~ Contains(hosts, srchv) \/ ~ Contains(hosts, dsthv)) <=>
               pc = "exit1"
        /\ pc = "exit1" => ExitCode = 1 /\ OnlyHostsListed
        /\ \A name \in {srchv, dsthv} :
               ~ Contains(hosts, name) => GetItem(hosts, name) = None

\* __waitforjob has returned what its polls alone determine: True after a
\* poll that reported 1, False after one that reported 2, False after
\* maxretries + 1 polls that reported neither.
ReturnedByPolls ==
    LET n == Len(observed)
    IN  /\ \A k \in 1..(n - 1) : observed[k] \notin {1, 2}
        /\ \/ n >= 1 /\ observed[n] = 1 /\ wres
           \/ n >= 1 /\ observed[n] = 2 /\ ~ wres
           \/ /\ n = maxretries + 1
              /\ \A k \in 1..n : observed[k] \notin {1, 2}
              /\ ~ wres

\* C16: SIGINT does not preempt a job wait.  The handler changes the flag
\* and nothing else; with the flag set __waitforjob polls on as long as it
\* has budget and returns what its polls determine; the run is ended by
\* the flag only from the check that follows the outcome line of a workload.
C16_WaitNotPreempted ==
    /\ [](pc = "report" => ReturnedByPolls)
    /\ [][/\ quit' /= quit =>
                 UNCHANGED <<pc, cursor, waiter, remote, jobs, output>>
          /\ (pc = "waitforjob" /\ quit /\ retries >= 0) =>
                 /\ Len(observed') = Len(observed) + 1
                 /\ pc' \in {"waitforjob", "report"}
          /\ (pc = "waitforjob" /\ quit /\ retries < 0) =>
                 /\ pc' = "report" /\ ~ wres' /\ observed' = observed
          /\ (pc' = "exit0" /\ pc /= "exit0") =>
                 /\ pc = "check" /\ quit
                 /\ nreport[<<phase, i>>] = 1
         ]_vars

\* C16's case: the flag is set in the middle of a wait, after a poll that
\* reported Running and with budget left for the next poll.
C16_Witness ==
    /\ pc = "waitforjob"
    /\ quit /\ sigAt.stage = "during"
    /\ Len(observed) >= 1
    /\ retries >= 0

\* The workload the dispatch loop is at.
Current == <<phase, i>>

\* C17: a workload goes through Eligible -> DryRunReported or Eligible ->
\* Dispatched -> Succeeded/Failed/TimedOut at most once.  It gets at most
\* one status line, one migrate request (none in a dry run) and one
\* outcome line, in that order; only an eligible workload gets any; the job
\* polled is the one of the migrate request of the current workload; the
\* outcome line is the one for the result of that wait; and a workload the
\* loop has left has exactly one outcome.
C17_OncePerWorkload ==
    /\ \A w \in Workloads :
           /\ nstatus[w] <= 1
           /\ nmigrate[w] <= nstatus[w]
           /\ nreport[w] <= nstatus[w]
           /\ nreport[w] <=
                  (IF args.DRYRUN THEN 1 - nmigrate[w] ELSE nmigrate[w])
           /\ nstatus[w] = 1 => Eligible(w)
           /\ (nstatus[w] = 1 /\ (w /= Current \/ pc \in {"check", "exit0"})) =>
                  nreport[w] = 1
    /\ pc = "dispatch" =>
           nstatus[Current] = 1 /\ nmigrate[Current] = 0
    /\ pc \in {"waitforjob", "report"} =>
           /\ jobid = Current
           /\ nmigrate[Current] = 1 /\ nreport[Current] = 0
    /\ pc \in {"check", "exit0"} =>
           lastline = (IF args.DRYRUN THEN "DRYRUN" ELSE OutcomeLine(wres))

\* C17's case: a workload whose wait timed out has its one outcome line and
\* the loop has gone on to the next workload, which is dispatched.
C17_Witness ==
    /\ pc = "waitforjob"
    /\ Current = <<"user", 2>>
    /\ nstatus[<<"user", 1>>] = 1
    /\ nmigrate[<<"user", 1>>] = 1
    /\ nreport[<<"user", 1>>] = 1
    /\ lastline = "Migration unsuccessful!"

\* The steps of the program itself (no signal, no step of the platform).
ProgramStep ==
    \/ Main \/ InstallHandler \/ LoadInventory \/ MaybeDisable
    \/ LoopSkip \/ LoopStatus \/ LoopEnd \/ Dispatch
    \/ WaitPoll \/ WaitTimeout \/ Report \/ Check

\* A bound on the steps one workload takes: status line, migrate request,
\* DefaultRetries + 1 polls, the timeout, outcome line, check, and the end of
\* two jobs on the platform.
StepsPerWorkload == DefaultRetries + 8

\* Positions the dispatch loop still has to pass: the workloads from the
\* cursor on and the ends of the for loops.
PositionsLeft ==
    CASE phase = "user" ->
             (Len(virtualmachines) + 1 - i) + Len(systemvms) + Len(routervms) + 3
      [] phase = "system" -> (Len(systemvms) + 1 - i) + Len(routervms) + 2
      [] phase = "router" -> (Len(routervms) + 1 - i) + 1
      [] OTHER -> 0

\* A bound on the steps of the dispatch loop over any inventory.
StepsOfLoop ==
    (MaxUserVMs + MaxSystemVMs + MaxRouters + 3) * StepsPerWorkload

\* A bound on the steps a run has left.
Measure ==
    IF ~ Running THEN 0
    ELSE (IF quit THEN 0 ELSE 1)
         + (IF jobs.left THEN 1 ELSE 0) + (IF jobs.running THEN 1 ELSE 0)
         + CASE pc = "main" -> StepsOfLoop + 4
             [] pc = "install" -> StepsOfLoop + 3
             [] pc = "load" -> StepsOfLoop + 2
             [] pc = "disable" -> StepsOfLoop + 1
             [] pc = "loop" -> PositionsLeft * StepsPerWorkload
             [] pc = "dispatch" -> PositionsLeft * StepsPerWorkload - 1
             [] pc = "waitforjob" ->
                    (PositionsLeft - 1) * StepsPerWorkload + retries + 4
             [] pc = "report" -> (PositionsLeft - 1) * StepsPerWorkload + 2
             [] pc = "check" -> (PositionsLeft - 1) * StepsPerWorkload + 1
             [] OTHER -> 0

\* C18: every run terminates when every remote call returns: a run that has
\* not ended can take a step, and every step lowers a natural number.  A
\* wait issues at most maxretries + 1 job status queries whatever they
\* report, no workload is visited twice, and the queries of a run number at
\* most DefaultRetries + 1 for each workload that was dispatched, so at most
\* (eligible workloads) * (DefaultRetries + 1).
C18_TerminatesWithinBudget ==
    /\ [](Running => ENABLED ProgramStep)
    /\ [](Measure \in Nat)
    /\ [][Measure' < Measure]_vars
    /\ [](pc \in {"waitforjob", "report"} => Len(observed) <= maxretries + 1)
    /\ [](\A w \in Workloads : nstatus[w] <= 1 /\ nmigrate[w] <= 1)
    /\ [](LET dispatched == {w \in Workloads : nmigrate[w] > 0}
              eligible == {w \in Workloads : Eligible(w)}
          IN  /\ dispatched \subseteq eligible
              /\ jobs.queries <= Cardinality(dispatched) * (DefaultRetries + 1)
              /\ jobs.queries <= Cardinality(eligible) * (DefaultRetries + 1))

\* C18's case: a run in which every wait timed out has ended after
\* DefaultRetries + 1 queries for each of its eligible workloads, of which
\* there are more than one.
C18_Witness ==
    /\ pc = "done"
    /\ Cardinality({w \in Workloads : Eligible(w)}) >= 2
    /\ jobs.queries =
           Cardinality({w \in Workloads : Eligible(w)}) * (DefaultRetries + 1)

\* C19 (as claimed): once the handler has set the flag, wherever the run
\* was, at most one workload gets a status line or a migrate request from
\* then on and the run ends with exit code 0: by sys.exit(0) at the check
\* after the outcome line of that workload, or normally when no workload
\* was left to process.
C19_BoundedResponse ==
    quit =>
        /\ since <= 1
        /\ ~ Running => ExitCode = 0
        /\ pc = "exit0" => nreport[Current] = 1
        /\ since = 1 => pc \notin {"loop", "done"}

\* C19 on the runs whose inventory loads (a SIGINT during the loading of an
\* inventory that line 102 cannot merge is followed by the KeyError).
C19_OnceLoaded ==
    quit =>
        /\ since <= 1
        /\ (~ Running /\ pc /= "KeyError_virtualmachine") => ExitCode = 0
        /\ pc = "exit0" => nreport[Current] = 1
        /\ pc = "done" => since = 0
        /\ since = 1 => pc \notin {"loop", "done"}

====
